---- MODULE Spec2Model ----
(***************************************************************************)
(* Model of the incremental market-data synchronisation of BotBourse.py:   *)
(* sync_instruments_from_casabourse, get_latest_session_date,              *)
(* process_instrument_update (worker pool), save_history (writer) and      *)
(* update_daily_data (orchestrator), plus seed_history of scrapper.py.     *)
(*                                                                         *)
(* Dates: an instant is a day number counted from 1970-01-01.  The text    *)
(* stored                                                                  *)
(* in the Date column is the "%Y-%m-%d" rendering, modelled as the tuple   *)
(* <<year, month, day>>; zero-padded ISO text compares as that tuple does, *)
(* component by component (TextLess).                                      *)
(***************************************************************************)
EXTENDS Integers, Sequences, FiniteSets, TLC

(* ---------------------------- bounds ----------------------------------- *)
\* number of update_daily_data runs explored
MaxRuns == 2
\* days the clock may advance after the first run's day
MaxTicks == 1

(* ------------------------ program constants ---------------------------- *)
\* BotBourse.py:188  timedelta(days=30)
BootstrapDays == 30
\* mutant: one worker more
max_workers_six == 5 + 1

\* BotBourse.py:209  ThreadPoolExecutor(max_workers=5)
max_workers == 5
\* BotBourse.py:152
BLACKLIST == {"TMA", "TQM", "UMR", "VCN", "WAA", "ZDJ"}

\* Python's None as a task result, and as the result of MAX(Date) on no rows
None == [kind |-> "None"]
NoDate == <<>>

(* ----------------------------- calendar -------------------------------- *)
\* An instant is a day number counted from 1970-01-01 (proleptic Gregorian),
\* the arithmetic datetime.date does on ordinals.
days_from_civil(y0, m, d) ==
    LET y == IF m <= 2 THEN y0 - 1 ELSE y0
        era == y \div 400
        yoe == y - era * 400
        mp == IF m > 2 THEN m - 3 ELSE m + 9
        doy == (153 * mp + 2) \div 5 + d - 1
        doe == yoe * 365 + yoe \div 4 - yoe \div 100 + doy
    IN era * 146097 + doe - 719468

civil_from_days(n) ==
    LET z == n + 719468
        era == z \div 146097
        doe == z - era * 146097
        yoe == (doe - doe \div 1460 + doe \div 36524 - doe \div 146096) \div 365
        doy == doe - (365 * yoe + yoe \div 4 - yoe \div 100)
        mp == (5 * doy + 2) \div 153
        d == doy - (153 * mp + 2) \div 5 + 1
        m == IF mp < 10 THEN mp + 3 ELSE mp - 9
        y == yoe + era * 400
    IN <<IF m <= 2 THEN y + 1 ELSE y, m, d>>

\* date.strftime("%Y-%m-%d") and pd.to_datetime(..).dt.strftime("%Y-%m-%d")
strftime(n) == civil_from_days(n)

\* datetime.strptime(text, "%Y-%m-%d").date()
strptime(t) == days_from_civil(t[1], t[2], t[3])

\* order of TEXT values in SQLite (memcmp of zero-padded ISO text)
TextLess(a, b) ==
    \/ a[1] < b[1]
    \/ a[1] = b[1] /\ a[2] < b[2]
    \/ a[1] = b[1] /\ a[2] = b[2] /\ a[3] < b[3]

\* the day the clock shows first: 2023-12-31, so that the next session
\* falls in another year
Clock0 == days_from_civil(2023, 12, 31)

(* --------------------------- environment ------------------------------- *)
\* values of the "Dernier cours" column as the collaborator delivers them
Closes == {"10,50", "11,00"}
\* sessions the market-data collaborator can hold quotes for
Sessions == {Clock0, Clock0 + 1}
FeedRows == [Date : Sessions, close : Closes]

RichSymbols == <<"ATW", "IAM">>
PoolSymbols == <<"ATW", "IAM", "BCP", "CMA", "LHM", "MNG">>
AllSymbols == {PoolSymbols[k] : k \in 1..Len(PoolSymbols)} \cup BLACKLIST

SeqToSet(s) == {s[k] : k \in 1..Len(s)}

\* every ordering of a finite set, as a set of sequences
Orderings(S) ==
    {s \in [1..Cardinality(S) -> S] : \A a, b \in 1..Cardinality(S) : a # b => s[a] # s[b]}

VARIABLES
    clock,              \* the day date.today() returns
    listing,            \* rows of cb.get_available_instrument()
    feed,               \* symbol -> quotes the market-data collaborator holds
    instruments,        \* table instruments: rows [id, symbol, name]
    historical_quotes,  \* table historical_quotes: rows [instrument_id, Date, Dernier_cours]
    pc,                 \* position of update_daily_data
    runs,               \* number of runs started
    last_date, start_s, end_s, today,   \* locals of update_daily_data
    run_instruments,    \* local `instruments`: sequence of [id, symbol]
    futures,            \* instrument id -> [state, args, result]
    pending,            \* futures as_completed has not yielded yet
    total_rows,         \* local total_rows
    cur,                \* the save_history call in progress
    writers,            \* threads inside save_history
    ret,                \* value returned by the last finished run
    hq0,                \* historical_quotes when the run started
    seen,               \* instrument id -> times its result was consumed
    prev,               \* window and zero-row instruments of the previous run
    market_data,        \* Postgres table market_data: rows [symbol, date, close]
    seed,               \* position and locals of seed_history
    list_error,         \* cb.get_available_instrument() raised in this run's sync
    main_pc,            \* position of main()
    alerts,             \* what analyze_opportunities returned
    sent_lines,         \* the argument of send_telegram
    sent_messages,      \* the messages send_telegram posted
    bot                 \* bot.py: the frame of a /rapport command and its metrics

envVars == <<clock, listing, feed>>
dbVars == <<instruments, historical_quotes>>
pgVars == <<market_data, seed>>
runVars == <<pc, runs, last_date, start_s, end_s, today, run_instruments,
             futures, pending, total_rows, cur, writers, ret, hq0, seen, prev>>
mainVars == <<list_error, main_pc, alerts, sent_lines, sent_messages, bot>>
vars == <<clock, listing, feed, instruments, historical_quotes, pc, runs,
          last_date, start_s, end_s, today, run_instruments, futures, pending,
          total_rows, cur, writers, ret, hq0, seen, prev, market_data, seed,
          list_error, main_pc, alerts, sent_lines, sent_messages, bot>>

(* ------------------------ instrument registry -------------------------- *)
\* str.strip() on the symbols the listing can carry
Strip(s) == IF s = "   " THEN "" ELSE IF s = "AT " THEN "AT" ELSE s

NextId(rows) ==
    IF rows = {} THEN 1
    ELSE 1 + (CHOOSE m \in {r.id : r \in rows} : \A r \in rows : r.id <= m)

\* df[df["Symbole"].astype(str).str.len() == 3]
df_actions(df) == SelectSeq(df, LAMBDA row : Len(row.Symbole) = 3)

\* the for-loop of sync_instruments_from_casabourse from row k on;
\* `existing` is the snapshot of symbols read before the loop
RECURSIVE UpsertLoop(_, _, _, _, _)
UpsertLoop(df, k, existing, rows, inserted) ==
    IF k > Len(df) THEN [error |-> FALSE, rows |-> rows, inserted |-> inserted]
    ELSE LET sym == Strip(df[k].Symbole)
             name == Strip(df[k].Nom)
         IN IF sym = "" THEN UpsertLoop(df, k + 1, existing, rows, inserted)
            ELSE IF sym \in existing
            THEN UpsertLoop(df, k + 1, existing,
                     {IF r.symbol = sym THEN [r EXCEPT !.name = name] ELSE r : r \in rows},
                     inserted)
            ELSE IF \E r \in rows : r.symbol = sym
            \* symbol TEXT NOT NULL UNIQUE: sqlite3.IntegrityError leaves the loop
            THEN [error |-> TRUE, rows |-> rows, inserted |-> inserted]
            ELSE UpsertLoop(df, k + 1, existing,
                     rows \cup {[id |-> NextId(rows), symbol |-> sym, name |-> name]},
                     inserted + 1)

sync_instruments_from_casabourse(df, table) ==
    UpsertLoop(df_actions(df), 1, {r.symbol : r \in table}, table, 0)

\* SELECT id, symbol FROM instruments, in rowid order
RECURSIVE RowsById(_)
RowsById(rows) ==
    IF rows = {} THEN <<>>
    ELSE LET lo == CHOOSE r \in rows : \A q \in rows : r.id <= q.id
         IN <<[id |-> lo.id, symbol |-> lo.symbol]>> \o RowsById(rows \ {lo})

get_instruments_from_db(table) == RowsById(table)

(* ----------------------------- quote store ----------------------------- *)
\* columns of historical_quotes that the queries of the program read
TableColumns == {"id", "instrument_id", "Date", "Dernier_cours", "Volume"}

\* c.strip().replace(" ", "_").replace("%", "pct")
SqlName(c) ==
    IF c = "Dernier cours" THEN "Dernier_cours"
    ELSE IF c = "Variation %" THEN "Variation_pct"
    ELSE c

\* mutant: SELECT MIN(Date)
get_earliest_session_date(table) ==
    IF table = {} THEN NoDate
    ELSE LET ds == {r.Date : r \in table}
         IN CHOOSE d \in ds : \A e \in ds : e = d \/ TextLess(d, e)

\* SELECT MAX(Date) FROM historical_quotes
get_latest_session_date(table) ==
    IF table = {} THEN NoDate
    ELSE LET ds == {r.Date : r \in table}
         IN CHOOSE d \in ds : \A e \in ds : e = d \/ TextLess(e, d)

\* mutant: the constraint names the date alone
ConflictsOnDate(r, row) == r.Date = row.Date

\* UNIQUE(instrument_id, Date)
Conflicts(r, row) == r.instrument_id = row.instrument_id /\ r.Date = row.Date

\* mutant: a plain INSERT into a table without the UNIQUE constraint
InsertPlain(table, row) == table \cup {row}

\* INSERT OR REPLACE INTO historical_quotes
InsertOrReplace(table, row) ==
    {r \in table : ~Conflicts(r, row)} \cup {row}

\* does the INSERT of a frame with these columns raise sqlite3.OperationalError
RaisesOperationalError(columns) ==
    \E c \in columns : SqlName(c) \notin TableColumns

QuoteRow(instrument_id, row) ==
    [instrument_id |-> instrument_id, Date |-> row.Date, Dernier_cours |-> row.Dernier_cours]

\* one iteration of the for-loop of save_history: [table, inserted]
SaveRow(table, inserted, instrument_id, columns, row) ==
    IF RaisesOperationalError(columns)
    THEN [table |-> table, inserted |-> inserted]
    ELSE [table |-> InsertOrReplace(table, QuoteRow(instrument_id, row)),
          inserted |-> inserted + 1]

\* save_history as a whole, from row k on
RECURSIVE SaveLoop(_, _, _, _, _, _)
SaveLoop(table, inserted, instrument_id, columns, rows, k) ==
    IF k > Len(rows) THEN [table |-> table, inserted |-> inserted]
    ELSE LET s == SaveRow(table, inserted, instrument_id, columns, rows[k])
         IN SaveLoop(s.table, s.inserted, instrument_id, columns, rows, k + 1)

save_history(table, instrument_id, df) ==
    IF df.rows = <<>> THEN [table |-> table, inserted |-> 0]
    ELSE SaveLoop(table, 0, instrument_id, df.columns \ {"Symbol"}, df.rows, 1)

(* ----------------------- market-data collaborator ---------------------- *)
ColumnSets ==
    { {"Date", "Dernier cours"},
      {"Dernier cours"},
      {"Date", "Dernier cours", "Capitalisation"} }

InWindow(sym, s, e) ==
    {r \in feed[sym] : strptime(s) <= r.Date /\ r.Date <= strptime(e)}

\* what cb.get_historical_data_auto(sym, start_s, end_s) may do
Responses(sym, s, e) ==
    {[kind |-> "throws"], [kind |-> "none"]}
    \cup {[kind |-> "df", columns |-> c, rows |-> o] :
             c \in ColumnSets, o \in Orderings(InWindow(sym, s, e))}

\* mutant: the task lets the collaborator's exception out
process_instrument_update_uncaught(inst, resp) ==
    IF resp.kind = "throws" THEN [kind |-> "raised"]
    ELSE IF resp.kind = "none" \/ resp.rows = <<>> THEN None
    ELSE IF "Date" \notin resp.columns THEN None
    ELSE [kind |-> "tuple", instrument_id |-> inst.id,
          df |-> [columns |-> resp.columns \cup {"Symbol"},
                  rows |-> [k \in 1..Len(resp.rows) |->
                               [Date |-> strftime(resp.rows[k].Date),
                                Dernier_cours |-> resp.rows[k].close]]]]

\* the body of process_instrument_update after the blacklist test
process_instrument_update(inst, resp) ==
    IF resp.kind = "throws" THEN None
    ELSE IF resp.kind = "none" \/ resp.rows = <<>> THEN None
    ELSE IF "Date" \notin resp.columns THEN None
    ELSE [kind |-> "tuple", instrument_id |-> inst.id,
          df |-> [columns |-> resp.columns \cup {"Symbol"},
                  rows |-> [k \in 1..Len(resp.rows) |->
                               [Date |-> strftime(resp.rows[k].Date),
                                Dernier_cours |-> resp.rows[k].close]]]]

(* ------------------------- analysis (BotBourse.py) --------------------- *)
\* BotBourse.py:16
MIN_VOLUME_MAD == 10000
\* BotBourse.py:310  get_history(symbol, limit=60)
HistoryLimit == 60
\* BotBourse.py:260 and 311  len(df) < 20
MinHistory == 20
\* BotBourse.py:264  rolling(window=14)
RsiWindow == 14
\* BotBourse.py:270-271  rolling(window=20), rolling(window=50)
Sma20Window == 20
Sma50Window == 50
\* BotBourse.py:317  rolling(window=5)
VolWindow == 5

\* a column the INSERT did not name holds NULL
Null == "NULL"
Column(r, c) == IF c \in DOMAIN r THEN r[c] ELSE Null

\* clean_number(txt) on the texts the columns can hold: the float, in hundredths
clean_number(txt) ==
    IF txt = Null \/ txt = "" THEN 0
    ELSE IF txt = "--" \/ txt = "-" THEN 0
    ELSE IF txt = "10,50" THEN 1050
    ELSE IF txt = "11,00" THEN 1100
    ELSE IF txt = "500" THEN 50000
    ELSE IF txt = "9 000" THEN 900000
    ELSE IF txt = "10 000" THEN 1000000
    ELSE IF txt = "60 000" THEN 6000000
    ELSE IF txt = "200 000" THEN 20000000
    ELSE 0

\* rows in ascending order of the Date text
RECURSIVE OrderByDateAsc(_)
OrderByDateAsc(rows) ==
    IF rows = {} THEN <<>>
    ELSE LET lo == CHOOSE r \in rows : \A q \in rows : ~TextLess(q.Date, r.Date)
         IN <<lo>> \o OrderByDateAsc(rows \ {lo})

\* ORDER BY h.Date ASC LIMIT ?
Limit(rows, limit) ==
    IF Len(rows) <= limit THEN rows ELSE SubSeq(rows, 1, limit)

\* get_history(symbol, limit): the frame [date, close, volume]
get_history(table, registry, symbol, limit) ==
    LET ids == {i.id : i \in {j \in registry : j.symbol = symbol}}
        joined == {h \in table : h.instrument_id \in ids}
        rows == Limit(OrderByDateAsc(joined), limit)
    IN [k \in 1..Len(rows) |->
           [date |-> rows[k].Date,
            close |-> clean_number(Column(rows[k], "Dernier_cours")),
            volume |-> clean_number(Column(rows[k], "Volume"))]]

(* ------------------------------ indicators ----------------------------- *)
\* a float is NaN or the exact quotient num / den (den > 0)
NaN == [kind |-> "nan"]
Num(n, d) == [kind |-> "num", num |-> n, den |-> d]

\* sum of a column over rows lo..hi of a frame
RECURSIVE SumBetween(_, _, _, _)
SumBetween(df, col, lo, hi) ==
    IF lo > hi THEN 0
    ELSE IF lo = hi THEN df[lo][col]
    ELSE LET mid == (lo + hi) \div 2
         IN SumBetween(df, col, lo, mid) + SumBetween(df, col, mid + 1, hi)

\* df[col].rolling(window=w).mean().iloc[-1]
RollingMeanLast(df, col, w) ==
    IF Len(df) < w THEN NaN
    ELSE Num(SumBetween(df, col, Len(df) - w + 1, Len(df)), w)

\* delta.where(delta > 0, 0) and -delta.where(delta < 0, 0) at row k;
\* the first row's delta is NaN, which either `where` replaces by 0
Gain(df, k) ==
    IF k = 1 THEN 0
    ELSE IF df[k].close > df[k - 1].close THEN df[k].close - df[k - 1].close ELSE 0
Loss(df, k) ==
    IF k = 1 THEN 0
    ELSE IF df[k].close < df[k - 1].close THEN df[k - 1].close - df[k].close ELSE 0

RECURSIVE SumGain(_, _, _)
SumGain(df, lo, hi) == IF lo > hi THEN 0 ELSE Gain(df, lo) + SumGain(df, lo + 1, hi)
RECURSIVE SumLoss(_, _, _)
SumLoss(df, lo, hi) == IF lo > hi THEN 0 ELSE Loss(df, lo) + SumLoss(df, lo + 1, hi)

\* lines 263-267 at the last row: 100 - 100 / (1 + gain / loss)
RsiLast(df) ==
    IF Len(df) < RsiWindow THEN NaN
    ELSE LET g == SumGain(df, Len(df) - RsiWindow + 1, Len(df))
             l == SumLoss(df, Len(df) - RsiWindow + 1, Len(df))
         IN IF l = 0 THEN (IF g = 0 THEN NaN ELSE Num(100, 1))
            ELSE Num(100 * g, g + l)

\* calculate_indicators(df): (rsi, sma20, sma50) of the last row
calculate_indicators(df) ==
    IF Len(df) < MinHistory THEN [rsi |-> None, sma20 |-> None, sma50 |-> None]
    ELSE [rsi |-> RsiLast(df),
          sma20 |-> RollingMeanLast(df, "close", Sma20Window),
          sma50 |-> RollingMeanLast(df, "close", Sma50Window)]

\* float comparisons: any comparison with NaN is False
Less(a, x) == a.kind = "num" /\ a.num < x * a.den
Greater(a, x) == a.kind = "num" /\ a.num > x * a.den
\* truth value of a float or None: None and 0.0 are false, NaN is true
Truthy(a) == a.kind = "nan" \/ (a.kind = "num" /\ a.num # 0)

\* line 329: sma20 and sma50 and sma20 > sma50 and (sma20 / sma50) < 1.02
GoldenCross(sma20, sma50) ==
    /\ Truthy(sma20) /\ Truthy(sma50)
    /\ sma20.kind = "num" /\ sma50.kind = "num"
    /\ sma20.num * sma50.den > sma50.num * sma20.den
    /\ sma20.num * sma50.den * 100 < 102 * sma50.num * sma20.den

(* ------------------------------ report text --------------------------- *)
RECURSIVE Digits(_)
Digits(n) == IF n < 10 THEN 1 ELSE 1 + Digits(n \div 10)

\* round(num / den) to the nearest integer, ties to even
RoundHalfEven(num, den) ==
    LET q == num \div den
        r == num % den
    IN IF 2 * r > den THEN q + 1
       ELSE IF 2 * r < den THEN q
       ELSE IF q % 2 = 0 THEN q ELSE q + 1

\* len(f"{x}") of the float h / 100
ReprWidth(h) == Digits(h \div 100) + 1 + (IF h % 10 # 0 THEN 2 ELSE 1)
\* len(f"{x:,.0f}") of the float h / 100
GroupedWidth(h) ==
    LET d == Digits(RoundHalfEven(h, 100)) IN d + (d - 1) \div 3
\* len(f"{x:.2f}") of a value given in hundredths
Fixed2Width(t) == Digits(t \div 100) + 3

\* a line of the report: its content and its len()
AlertLine(symbol, signal, icon, reason, rsi, close, volume, target) ==
    [kind |-> "alert", symbol |-> symbol, signal |-> signal, icon |-> icon,
     reason |-> reason, rsi |-> rsi, close |-> close, volume |-> volume,
     target |-> target, updated |-> 0, signaux |-> 0,
     len |-> 5 + Len(symbol) + 3 + (IF icon THEN 1 ELSE 0) + 1
             + 2 + Len(signal) + 1
             + 2 + ReprWidth(close) + 12 + GroupedWidth(volume) + 1
             + 7 + Fixed2Width(target) + 5
             + (IF reason = "Golden Cross" THEN 12
                ELSE Len(reason) + 2 + Digits(rsi) + 1)]

\* line 404: the summary line
SummaryLine(updated, signaux) ==
    [kind |-> "summary", symbol |-> "", signal |-> "", icon |-> FALSE,
     reason |-> "", rsi |-> 0, close |-> 0, volume |-> 0, target |-> 0,
     updated |-> updated, signaux |-> signaux,
     len |-> 39 + Digits(updated) + Digits(signaux)]

(* ------------------------- analyze_opportunities ----------------------- *)
\* lines 306-344 for one row of the latest session: <<>> or <<line>>
Opportunity(table, registry, symbol, close, volume) ==
    IF volume < MIN_VOLUME_MAD * 100 THEN <<>>
    ELSE LET df == get_history(table, registry, symbol, HistoryLimit)
         IN IF Len(df) < MinHistory THEN <<>>
            ELSE LET ind == calculate_indicators(df)
                     avg_vol == RollingMeanLast(df, "volume", VolWindow)
                     \* volume > avg_vol * 1.5 and volume > 50000
                     vol_spike == /\ avg_vol.kind = "num"
                                  /\ volume * avg_vol.den * 10 > avg_vol.num * 15
                                  /\ volume > 50000 * 100
                 IN IF ind.rsi.kind = "None" THEN <<>>
                    ELSE IF Less(ind.rsi, 35)
                    THEN <<AlertLine(symbol, "ACHAT (Rebond)", vol_spike, "RSI Bas",
                                     RoundHalfEven(ind.rsi.num, ind.rsi.den),
                                     close, volume, (close * 105 + 50) \div 100)>>
                    ELSE IF GoldenCross(ind.sma20, ind.sma50)
                    THEN <<AlertLine(symbol, "ACHAT (Tendance)", vol_spike, "Golden Cross",
                                     0, close, volume, (close * 110 + 50) \div 100)>>
                    ELSE IF Greater(ind.rsi, 70)
                    THEN <<AlertLine(symbol, "VENTE", vol_spike, "RSI Haut",
                                     RoundHalfEven(ind.rsi.num, ind.rsi.den),
                                     close, volume, (close * 95 + 50) \div 100)>>
                    ELSE <<>>

\* the rows of the latest session, joined with their instrument, by instrument id
RECURSIVE TodaysData(_, _)
TodaysData(rows, registry) ==
    IF rows = {} THEN <<>>
    ELSE LET lo == CHOOSE r \in rows : \A q \in rows : r.instrument_id <= q.instrument_id
             inst == {i \in registry : i.id = lo.instrument_id}
         IN (IF inst = {} THEN <<>>
             ELSE <<[symbol |-> (CHOOSE i \in inst : TRUE).symbol,
                     close |-> clean_number(Column(lo, "Dernier_cours")),
                     volume |-> clean_number(Column(lo, "Volume"))]>>)
            \o TodaysData(rows \ {lo}, registry)

RECURSIVE ReportLines(_, _, _, _)
ReportLines(table, registry, todays_data, k) ==
    IF k > Len(todays_data) THEN <<>>
    ELSE Opportunity(table, registry, todays_data[k].symbol,
                     todays_data[k].close, todays_data[k].volume)
         \o ReportLines(table, registry, todays_data, k + 1)

analyze_opportunities(table, registry) ==
    LET session_date == get_latest_session_date(table)
    IN IF session_date = NoDate THEN <<>>
       ELSE ReportLines(table, registry,
                TodaysData({h \in table : h.Date = session_date}, registry), 1)

(* ----------------------------- send_telegram --------------------------- *)
\* BotBourse.py:368
MAX_LENGTH == 3500
\* len(header) of line 351: the title, the date as YYYY-MM-DD and "\n"
HeaderLen == 31
\* len("\n------------------\n") of line 374
SeparatorLen == 20

\* a message: whether it starts with header + "\n", the entries that follow
\* (an entry is a line and the separator), and its len()
EntryLen(line) == line.len + SeparatorLen
FirstMessage == [head |-> TRUE, entries |-> <<>>, len |-> HeaderLen + 1]

\* mutant: the test looks at the message alone
OverflowsAlready(current_len, entry_len) == current_len > MAX_LENGTH

\* line 375: len(current_msg) + len(entry) > MAX_LENGTH
Overflows(current_len, entry_len) == current_len + entry_len > MAX_LENGTH

\* lines 373-382 from line k on
RECURSIVE ChunkLoop(_, _, _, _)
ChunkLoop(lines, k, messages, current_msg) ==
    IF k > Len(lines)
    THEN (IF current_msg.len > 0 THEN Append(messages, current_msg) ELSE messages)
    ELSE IF Overflows(current_msg.len, EntryLen(lines[k]))
    THEN ChunkLoop(lines, k + 1, Append(messages, current_msg),
                   [head |-> FALSE, entries |-> <<lines[k]>>, len |-> EntryLen(lines[k])])
    ELSE ChunkLoop(lines, k + 1, messages,
                   [current_msg EXCEPT !.entries = Append(@, lines[k]),
                                       !.len = @ + EntryLen(lines[k])])

\* send_telegram(lines): the messages posted; none without lines or without
\* BOT_TOKEN and CHAT_ID
send_telegram(lines, configured) ==
    IF lines = <<>> \/ ~configured THEN <<>>
    ELSE ChunkLoop(lines, 1, <<>>, FirstMessage)

(* -------------------- calculate_investor_metrics (bot.py) -------------- *)
\* bot.py:78  len(df) < 250
MinInvestorHistory == 250
\* bot.py:83  rolling(200)
Sma200Window == 200
\* bot.py:93-94  len(df) > 756 and iloc[-756]
CagrSessions == 756

\* ((curr_price / start_price) ** (1/3) - 1) * 100, kept as the price ratio
Cagr(curr_price, start_price) ==
    [kind |-> "cagr", num |-> curr_price, den |-> start_price]

\* calculate_investor_metrics(df) on a frame of closes in date order; the
\* volatility and its label, which no window test guards, are left out
calculate_investor_metrics(df) ==
    IF Len(df) < MinInvestorHistory THEN None
    ELSE LET curr_price == df[Len(df)].close
             sma200 == RollingMeanLast(df, "close", Sma200Window)
         IN [kind |-> "metrics",
             price |-> curr_price,
             sma200 |-> sma200,
             trend |-> IF sma200.kind = "num" /\ curr_price * sma200.den > sma200.num
                       THEN "HAUSSIERE" ELSE "BAISSIERE",
             cagr_3y |-> IF Len(df) > CagrSessions
                         THEN Cagr(curr_price, df[Len(df) - CagrSessions + 1].close)
                         ELSE Num(0, 1)]

(* ------------------------------- Init ---------------------------------- *)
Listing(symbols) == [k \in 1..Len(symbols) |-> [Symbole |-> symbols[k], Nom |-> symbols[k]]]

NoCall == [instrument_id |-> 0, columns |-> {}, rows |-> <<>>, k |-> 0, inserted |-> 0]
NoPrev == [returned |-> FALSE, ran |-> FALSE, start |-> 0, end |-> 0, zero |-> {}]

\* bot.py is not running
BotOff == [pc |-> "off", df |-> <<>>, m |-> None]

SeedOff == [pc |-> "off", symbols |-> <<>>, k |-> 0, start_s |-> NoDate,
            end_s |-> NoDate, total_inserted |-> 0]

InitProgram ==
    /\ clock = Clock0
    /\ instruments = {}
    /\ historical_quotes = {}
    /\ runs = 0
    /\ last_date = NoDate /\ start_s = NoDate /\ end_s = NoDate /\ today = Clock0
    /\ run_instruments = <<>>
    /\ futures = <<>>
    /\ pending = {}
    /\ total_rows = 0
    /\ cur = NoCall
    /\ writers = {}
    /\ ret = 0
    /\ hq0 = {}
    /\ seen = <<>>
    /\ prev = NoPrev
    /\ market_data = {}
    /\ list_error = FALSE
    /\ main_pc = "update"
    /\ alerts = <<>> /\ sent_lines = <<>> /\ sent_messages = <<>>
    /\ bot = BotOff

RichFeed ==
    \E S \in {T \in SUBSET FeedRows : Cardinality(T) <= 2},
       U \in {T \in SUBSET FeedRows : Cardinality(T) <= 1} :
       feed = [s \in AllSymbols |-> IF s = RichSymbols[1] THEN S
                                    ELSE IF s = RichSymbols[2] THEN U ELSE {}]

\* two listed instruments, with up to two quotes and up to one quote upstream
InitRich ==
    /\ pc = "idle" /\ seed = SeedOff
    /\ listing = Listing(RichSymbols)
    /\ RichFeed

\* the Postgres variant (scrapper.py), same listing and quotes
InitSeed ==
    /\ pc = "off" /\ seed = [SeedOff EXCEPT !.pc = "idle"]
    /\ listing = Listing(RichSymbols)
    /\ RichFeed

\* more listed instruments than workers, one of them with a quote upstream
InitPool ==
    /\ pc = "idle" /\ seed = SeedOff
    /\ listing = Listing(PoolSymbols)
    /\ feed = [s \in AllSymbols |->
                 IF s = PoolSymbols[1] THEN {[Date |-> Clock0, close |-> "10,50"]} ELSE {}]

\* a listing with a blacklisted symbol
InitBlacklisted ==
    /\ pc = "idle" /\ seed = SeedOff
    /\ listing = Listing(<<"TQM", "ATW">>)
    /\ feed = [s \in AllSymbols |->
                 IF s = "ATW" THEN {[Date |-> Clock0, close |-> "10,50"]} ELSE {}]

\* a listing that names the same symbol twice
InitTwice ==
    /\ pc = "idle" /\ seed = SeedOff
    /\ listing = Listing(<<"ATW", "ATW">>)
    /\ feed = [s \in AllSymbols |-> {}]

Init == InitProgram /\ (InitRich \/ InitPool \/ InitBlacklisted \/ InitTwice \/ InitSeed)

(* ------------------------- update_daily_data --------------------------- *)
Resting == pc \in {"idle", "done", "failed", "aborted"}

\* the process that ran main() is gone
MainExited == pc \in {"idle", "aborted"} \/ main_pc \in {"exited", "crashed"}

\* instruments of the run just ended whose fetch put no row in the store
ZeroRowInstruments ==
    {i \in DOMAIN futures :
        \/ seen[i] = 0
        \/ futures[i].result.kind # "tuple"
        \/ RaisesOperationalError(futures[i].result.df.columns \ {"Symbol"})}

\* what the run just ended leaves behind for the properties of the next one
PrevOfRun ==
    IF pc \in {"done", "aborted"} /\ DOMAIN futures # {}
    THEN [returned |-> pc = "done", ran |-> TRUE,
          start |-> strptime(start_s), end |-> strptime(end_s),
          zero |-> ZeroRowInstruments]
    ELSE [NoPrev EXCEPT !.returned = (pc = "done")]

EnterRun ==
    /\ Resting /\ MainExited
    /\ runs < MaxRuns
    /\ runs' = runs + 1
    /\ prev' = PrevOfRun
    /\ hq0' = historical_quotes
    /\ last_date' = NoDate /\ start_s' = NoDate /\ end_s' = NoDate
    /\ run_instruments' = <<>> /\ futures' = <<>> /\ pending' = {} /\ seen' = <<>>
    /\ total_rows' = 0 /\ cur' = NoCall /\ writers' = {} /\ ret' = 0
    /\ main_pc' = "update"
    /\ alerts' = <<>> /\ sent_lines' = <<>> /\ sent_messages' = <<>>
    /\ UNCHANGED <<today, historical_quotes, pgVars, envVars, bot>>

\* line 178, cb.get_available_instrument() raises: lines 61-65 catch the
\* exception and the sync returns 0, so update_daily_data goes on to line 180
SyncListUnavailable ==
    /\ EnterRun
    /\ list_error' = TRUE
    /\ pc' = "window"
    /\ UNCHANGED instruments

\* line 178, the upsert loop commits
SyncCommitted ==
    /\ EnterRun
    /\ LET r == sync_instruments_from_casabourse(listing, instruments)
       IN /\ ~r.error
          /\ instruments' = r.rows
    /\ list_error' = FALSE
    /\ pc' = "window"

\* line 178, the upsert loop raises sqlite3.IntegrityError: nothing is committed
SyncIntegrityError ==
    /\ EnterRun
    /\ sync_instruments_from_casabourse(listing, instruments).error
    /\ list_error' = FALSE
    /\ pc' = "failed"
    /\ UNCHANGED instruments

\* mutant: the window restarts on the last stored day
start_dt_same_day(last, day) ==
    IF last # NoDate THEN strptime(last) ELSE day - BootstrapDays

\* lines 180-188
start_dt(last, day) ==
    IF last # NoDate THEN strptime(last) + 1 ELSE day - BootstrapDays

\* mutant: the test allows one day more
StartAfterTomorrow(start, day) == start > day + 1

\* line 190: start_dt > today
StartAfterToday(start, day) == start > day

\* lines 180-193, the store is current
AlreadyCurrent ==
    /\ pc = "window"
    /\ LET last == get_latest_session_date(historical_quotes)
       IN /\ StartAfterToday(start_dt(last, clock), clock)
          /\ last_date' = last
    /\ today' = clock
    /\ ret' = 0
    /\ pc' = "done"
    /\ UNCHANGED <<runs, start_s, end_s, run_instruments, futures, pending, total_rows,
                   cur, writers, hq0, seen, prev, dbVars, pgVars, envVars, mainVars>>

\* lines 180-196
ComputeWindow ==
    /\ pc = "window"
    /\ LET last == get_latest_session_date(historical_quotes)
       IN /\ ~StartAfterToday(start_dt(last, clock), clock)
          /\ last_date' = last
          /\ start_s' = strftime(start_dt(last, clock))
    /\ today' = clock
    /\ end_s' = strftime(clock)
    /\ pc' = "dispatch"
    /\ UNCHANGED <<runs, run_instruments, futures, pending, total_rows,
                   cur, writers, ret, hq0, seen, prev, dbVars, pgVars, envVars, mainVars>>

\* lines 199-210: one future per instrument; the executor hands the first
\* max_workers of them to its threads and queues the rest
Dispatch ==
    /\ pc = "dispatch"
    /\ LET insts == get_instruments_from_db(instruments)
           ids == {insts[k].id : k \in 1..Len(insts)}
       IN /\ run_instruments' = insts
          /\ futures' = [i \in ids |->
                  [state |-> IF Cardinality({j \in ids : j <= i}) <= max_workers
                             THEN "running" ELSE "queued",
                   symbol |-> insts[CHOOSE k \in 1..Len(insts) : insts[k].id = i].symbol,
                   args |-> <<start_s, end_s>>,
                   result |-> None]]
          /\ pending' = ids
          /\ seen' = [i \in ids |-> 0]
    /\ total_rows' = 0
    /\ pc' = "collecting"
    /\ UNCHANGED <<runs, last_date, start_s, end_s, today, cur, writers, ret, hq0,
                   prev, dbVars, pgVars, envVars, mainVars>>

Running == {i \in DOMAIN futures : futures[i].state = "running"}

\* fetch calls to the market-data collaborator that have not returned
InFlight == {i \in Running : futures[i].symbol \notin BLACKLIST}

PoolActive == pc \in {"collecting", "writing"}

\* a freed executor thread takes the oldest queued work item
WorkerTakesNext(i) ==
    /\ PoolActive
    /\ futures[i].state = "queued"
    /\ \A j \in DOMAIN futures : futures[j].state = "queued" => i <= j
    /\ Cardinality(Running) < max_workers
    /\ futures' = [futures EXCEPT ![i].state = "running"]
    /\ UNCHANGED <<pc, runs, last_date, start_s, end_s, today, run_instruments, pending,
                   total_rows, cur, writers, ret, hq0, seen, prev, dbVars, pgVars, envVars, mainVars>>

\* lines 152-154: a blacklisted symbol is not fetched
TaskBlacklisted(i) ==
    /\ PoolActive
    /\ futures[i].state = "running"
    /\ futures[i].symbol \in BLACKLIST
    /\ futures' = [futures EXCEPT ![i].state = "finished", ![i].result = None]
    /\ UNCHANGED <<pc, runs, last_date, start_s, end_s, today, run_instruments, pending,
                   total_rows, cur, writers, ret, hq0, seen, prev, dbVars, pgVars, envVars, mainVars>>

\* lines 156-173: the fetch returns or raises and the task ends
TaskFetched(i) ==
    /\ PoolActive
    /\ futures[i].state = "running"
    /\ futures[i].symbol \notin BLACKLIST
    /\ \E resp \in Responses(futures[i].symbol, futures[i].args[1], futures[i].args[2]) :
          futures' = [futures EXCEPT
              ![i].state = "finished",
              ![i].result = process_instrument_update(
                                [id |-> i, symbol |-> futures[i].symbol], resp)]
    /\ UNCHANGED <<pc, runs, last_date, start_s, end_s, today, run_instruments, pending,
                   total_rows, cur, writers, ret, hq0, seen, prev, dbVars, pgVars, envVars, mainVars>>

\* mutant: the task that fetched the frame writes it
WriterThreadTask(i) == "ThreadPoolExecutor-0"

\* the thread that runs save_history for a collected result (line 216)
WriterThread(i) == "MainThread"

Yielded(i) ==
    /\ pc = "collecting"
    /\ i \in pending
    /\ futures[i].state = "finished"
    /\ pending' = pending \ {i}
    /\ seen' = [seen EXCEPT ![i] = @ + 1]

\* lines 212-214: as_completed yields a future whose result is None;
\* future.result() re-raises what a task raised
CollectNone(i) ==
    /\ Yielded(i)
    /\ futures[i].result.kind # "tuple"
    /\ pc' = IF futures[i].result.kind = "raised" THEN "failed" ELSE pc
    /\ UNCHANGED <<runs, last_date, start_s, end_s, today, run_instruments, futures,
                   total_rows, cur, writers, ret, hq0, prev, dbVars, pgVars, envVars, mainVars>>

\* lines 213-216 and 105-116: save_history is entered with the frame
CollectFrame(i) ==
    /\ Yielded(i)
    /\ futures[i].result.kind = "tuple"
    /\ cur' = [instrument_id |-> futures[i].result.instrument_id,
               columns |-> futures[i].result.df.columns \ {"Symbol"},
               rows |-> futures[i].result.df.rows,
               k |-> 1, inserted |-> 0]
    /\ writers' = writers \cup {WriterThread(i)}
    /\ pc' = "writing"
    /\ UNCHANGED <<runs, last_date, start_s, end_s, today, run_instruments, futures,
                   total_rows, ret, hq0, prev, dbVars, pgVars, envVars, mainVars>>

\* lines 119-139: one iteration of the insert loop
InsertRow ==
    /\ pc = "writing"
    /\ cur.k <= Len(cur.rows)
    /\ LET s == SaveRow(historical_quotes, cur.inserted, cur.instrument_id,
                        cur.columns, cur.rows[cur.k])
       IN /\ historical_quotes' = s.table
          /\ cur' = [cur EXCEPT !.k = @ + 1, !.inserted = s.inserted]
    /\ UNCHANGED <<pc, runs, last_date, start_s, end_s, today, run_instruments, futures,
                   pending, total_rows, writers, ret, hq0, seen, prev, instruments,
                   pgVars, envVars, mainVars>>

\* lines 141-142 and 217: commit, return inserted, add it to total_rows
SaveReturns ==
    /\ pc = "writing"
    /\ cur.k > Len(cur.rows)
    /\ total_rows' = total_rows + cur.inserted
    /\ writers' = {}
    /\ cur' = NoCall
    /\ pc' = "collecting"
    /\ UNCHANGED <<runs, last_date, start_s, end_s, today, run_instruments, futures,
                   pending, ret, hq0, seen, prev, dbVars, pgVars, envVars, mainVars>>

\* mutant: the loop ends with the first future yielded
FirstCollected == pending # DOMAIN futures \/ pending = {}

\* line 212: as_completed has yielded every future
AllCollected == pending = {}

\* lines 225-227: every future was yielded
Return ==
    /\ pc = "collecting"
    /\ AllCollected
    /\ ret' = total_rows
    /\ pc' = "done"
    /\ UNCHANGED <<runs, last_date, start_s, end_s, today, run_instruments, futures,
                   pending, total_rows, cur, writers, hq0, seen, prev, dbVars,
                   pgVars, envVars, mainVars>>

\* the process is stopped between two instruments
Abort ==
    /\ pc = "collecting"
    /\ pending # {}
    /\ pc' = "aborted"
    /\ UNCHANGED <<runs, last_date, start_s, end_s, today, run_instruments, futures,
                   pending, total_rows, cur, writers, ret, hq0, seen, prev, dbVars,
                   pgVars, envVars, mainVars>>

(* --------------------- seed_history (scrapper.py) ---------------------- *)
\* scrapper.py:177  timedelta(days=1825)
SeedDays == 1825

\* float(str(row["Dernier cours"]).replace(',', '.')) kept as NUMERIC(10, 2):
\* the value in hundredths
CloseValue(txt) == IF txt = "10,50" THEN 1050 ELSE IF txt = "11,00" THEN 1100 ELSE 0

\* INSERT INTO market_data .. ON CONFLICT (symbol, date) DO NOTHING, one record
InsertDoNothing(table, rec) ==
    IF \E r \in table : r.symbol = rec.symbol /\ r.date = rec.date
    THEN table ELSE table \cup {rec}

\* execute_values(cur, query, records)
RECURSIVE execute_values(_, _, _)
execute_values(table, records, k) ==
    IF k > Len(records) THEN table
    ELSE execute_values(InsertDoNothing(table, records[k]), records, k + 1)

\* lines 189-199: the records built from a frame
Records(sym, rows) ==
    [k \in 1..Len(rows) |->
        [symbol |-> sym, date |-> strptime(strftime(rows[k].Date)),
         close |-> CloseValue(rows[k].close)]]

\* scrapper.py:121 and 173-174: the symbols seed_instruments registered
\* (at most 6 characters), all active
seed_symbols(df) ==
    LET kept == SelectSeq(df, LAMBDA row : Len(row.Symbole) <= 6)
    IN [k \in 1..Len(kept) |-> Strip(kept[k].Symbole)]

SeedResting == seed.pc \in {"idle", "seeded"}

\* lines 168-182
SeedOpen ==
    /\ SeedResting
    /\ runs < MaxRuns
    /\ runs' = runs + 1
    /\ seed' = [pc |-> "seeding",
                symbols |-> seed_symbols(listing),
                k |-> 1,
                start_s |-> strftime(clock - SeedDays),
                end_s |-> strftime(clock),
                total_inserted |-> 0]
    /\ UNCHANGED <<pc, last_date, start_s, end_s, today, run_instruments, futures, pending,
                   total_rows, cur, writers, ret, hq0, seen, prev, dbVars, market_data, envVars, mainVars>>

\* lines 185-187 and 211-212: the fetch raises, returns nothing, or a frame
\* without the Date column raises KeyError
SeedSkipsSymbol ==
    /\ seed.pc = "seeding"
    /\ seed.k <= Len(seed.symbols)
    /\ \E resp \in Responses(seed.symbols[seed.k], seed.start_s, seed.end_s) :
          \/ resp.kind \in {"throws", "none"}
          \/ resp.kind = "df" /\ (resp.rows = <<>> \/ "Date" \notin resp.columns)
    /\ seed' = [seed EXCEPT !.k = @ + 1]
    /\ UNCHANGED <<runVars, dbVars, market_data, envVars, mainVars>>

\* lines 185-209
SeedInsertsSymbol ==
    /\ seed.pc = "seeding"
    /\ seed.k <= Len(seed.symbols)
    /\ \E resp \in Responses(seed.symbols[seed.k], seed.start_s, seed.end_s) :
          /\ resp.kind = "df" /\ resp.rows # <<>> /\ "Date" \in resp.columns
          /\ market_data' = execute_values(market_data,
                                Records(seed.symbols[seed.k], resp.rows), 1)
          /\ seed' = [seed EXCEPT !.k = @ + 1,
                                  !.total_inserted = @ + Len(resp.rows)]
    /\ UNCHANGED <<runVars, dbVars, envVars, mainVars>>

\* lines 214-217
SeedCommit ==
    /\ seed.pc = "seeding"
    /\ seed.k > Len(seed.symbols)
    /\ seed' = [seed EXCEPT !.pc = "seeded"]
    /\ UNCHANGED <<runVars, dbVars, market_data, envVars, mainVars>>

(* -------------------------------- main --------------------------------- *)
\* line 402: analyze_opportunities() after update_daily_data returned
MainAnalyzes ==
    /\ pc = "done" /\ main_pc = "update"
    /\ alerts' = analyze_opportunities(historical_quotes, instruments)
    /\ main_pc' = "analyzed"
    /\ UNCHANGED <<runVars, dbVars, pgVars, envVars, list_error, sent_lines, sent_messages, bot>>

\* lines 404-410: the summary line, then the alerts, go to send_telegram
MainSends ==
    /\ main_pc = "analyzed"
    /\ \E configured \in BOOLEAN :
          /\ sent_lines' = <<SummaryLine(ret, Len(alerts))>> \o alerts
          /\ sent_messages' = send_telegram(sent_lines', configured)
    /\ main_pc' = "exited"
    /\ UNCHANGED <<runVars, dbVars, pgVars, envVars, list_error, alerts, bot>>

\* lines 412-420: what update_daily_data raised is reported and raised again
MainCrashes ==
    /\ pc = "failed" /\ main_pc = "update"
    /\ main_pc' = "crashed"
    /\ UNCHANGED <<runVars, dbVars, pgVars, envVars, list_error, alerts, sent_lines, sent_messages, bot>>

\* midnight passes between two runs
Tick ==
    /\ (Resting /\ MainExited) \/ SeedResting
    /\ clock < Clock0 + MaxTicks
    /\ clock' = clock + 1
    /\ UNCHANGED <<listing, feed, runVars, dbVars, pgVars, mainVars>>

Next ==
    \/ SyncListUnavailable
    \/ SyncCommitted
    \/ SyncIntegrityError
    \/ AlreadyCurrent
    \/ ComputeWindow
    \/ Dispatch
    \/ \E i \in DOMAIN futures : WorkerTakesNext(i)
    \/ \E i \in DOMAIN futures : TaskBlacklisted(i)
    \/ \E i \in DOMAIN futures : TaskFetched(i)
    \/ \E i \in DOMAIN futures : CollectNone(i)
    \/ \E i \in DOMAIN futures : CollectFrame(i)
    \/ InsertRow
    \/ SaveReturns
    \/ Return
    \/ Abort
    \/ MainAnalyzes
    \/ MainSends
    \/ MainCrashes
    \/ SeedOpen
    \/ SeedSkipsSymbol
    \/ SeedInsertsSymbol
    \/ SeedCommit
    \/ Tick

Spec == Init /\ [][Next]_vars

(* ------------------ runs that are left to run to their end ------------ *)
\* a step of update_daily_data or of one of its tasks
RunStep ==
    \/ AlreadyCurrent
    \/ ComputeWindow
    \/ Dispatch
    \/ \E i \in DOMAIN futures : WorkerTakesNext(i)
    \/ \E i \in DOMAIN futures : TaskBlacklisted(i)
    \/ \E i \in DOMAIN futures : TaskFetched(i)
    \/ \E i \in DOMAIN futures : CollectNone(i)
    \/ \E i \in DOMAIN futures : CollectFrame(i)
    \/ InsertRow
    \/ SaveReturns
    \/ Return

NextLive ==
    \/ SyncListUnavailable
    \/ SyncCommitted
    \/ SyncIntegrityError
    \/ RunStep
    \/ MainAnalyzes
    \/ MainSends
    \/ MainCrashes
    \/ Tick

InitLive == InitProgram /\ (InitRich \/ InitPool \/ InitBlacklisted \/ InitTwice)

\* the process is not stopped, its threads are scheduled and every fetch
\* call returns or raises
LiveSpec == InitLive /\ [][NextLive]_vars /\ WF_vars(RunStep)

(* --------------- analysis and report on a store with history ---------- *)
\* number of alert lines handed to send_telegram
MaxAlerts == 40

\* stored sessions of the analysed instrument, around the windows and the limit
HistorySizes == {19, 20, 21, 49, 50, 60, 61}
ClosePatterns == {"flat", "drop", "rise"}
VolumePatterns == {"liquid", "thin", "mid", "last", "spike"}

\* the close and the volume of session k of n, as stored text
CloseAt(cp, k, n) ==
    IF cp = "drop" THEN (IF k = n THEN "10,50" ELSE "11,00")
    ELSE IF cp = "rise" THEN (IF k = n THEN "11,00" ELSE "10,50")
    ELSE "10,50"
VolumeAt(vp, k, n) ==
    IF vp = "liquid" THEN "200 000"
    ELSE IF vp = "thin" THEN "500"
    ELSE IF vp = "mid" THEN "9 000"
    ELSE IF vp = "last" THEN (IF k = n THEN "10 000" ELSE "--")
    ELSE (IF k = n THEN "60 000" ELSE "500")

\* n consecutive sessions of one instrument, the last one on Clock0
StoredSeries(id, n, cp, vp) ==
    {[instrument_id |-> id, Date |-> strftime(Clock0 - n + k),
      Dernier_cours |-> CloseAt(cp, k, n), Volume |-> VolumeAt(vp, k, n)] : k \in 1..n}

\* update_daily_data has just returned 0 on a store that is current
InitReturned ==
    /\ clock = Clock0 /\ today = Clock0
    /\ feed = [s \in AllSymbols |-> {}]
    /\ runs = MaxRuns
    /\ start_s = NoDate /\ end_s = NoDate
    /\ run_instruments = <<>> /\ futures = <<>> /\ pending = {} /\ seen = <<>>
    /\ total_rows = 0 /\ cur = NoCall /\ writers = {} /\ ret = 0
    /\ prev = NoPrev
    /\ market_data = {} /\ seed = SeedOff
    /\ list_error = FALSE
    /\ sent_lines = <<>> /\ sent_messages = <<>>

\* main is about to analyse a store that holds a history
InitAnalysis ==
    /\ InitReturned
    /\ listing = Listing(RichSymbols)
    /\ instruments = {[id |-> k, symbol |-> RichSymbols[k], name |-> RichSymbols[k]] :
                         k \in 1..Len(RichSymbols)}
    /\ \E n \in HistorySizes, cp \in ClosePatterns, vp \in VolumePatterns, two \in BOOLEAN :
          historical_quotes = StoredSeries(1, n, cp, vp)
              \cup (IF two THEN StoredSeries(2, MinHistory, "drop", "liquid") ELSE {})
    /\ hq0 = historical_quotes
    /\ last_date = get_latest_session_date(historical_quotes)
    /\ pc = "done" /\ main_pc = "update"
    /\ alerts = <<>>
    /\ bot = BotOff

\* symbols of a registry large enough for a report of several messages
ReportSymbols ==
    <<"ADH", "ADI", "AFI", "AFM", "AGM", "ALM", "ARD", "ATH", "ATL", "ATW",
      "BAL", "BCI", "BCP", "BOA", "CDM", "CFG", "CIH", "CMA", "CMT", "COL",
      "CRS", "CSR", "CTM", "DHO", "DRI", "DWY", "EQD", "FBR", "GAZ", "HPS",
      "IAM", "IBC", "IMO", "INV", "JET", "LBV", "LES", "LHM", "MAB", "MDP",
      "MIC", "MLE", "MNG", "MOX", "MSA">>

\* main is about to analyse a store in which up to MaxAlerts instruments
\* have a history that gives a signal
InitManyAlerts ==
    /\ InitReturned
    /\ \E n \in 0..MaxAlerts, p \in 0..2 :
          /\ listing = Listing(SubSeq(ReportSymbols, 1, n))
          /\ instruments = {[id |-> k, symbol |-> ReportSymbols[k],
                             name |-> ReportSymbols[k]] : k \in 1..n}
          /\ historical_quotes =
                UNION {StoredSeries(k, MinHistory,
                                    IF (k + p) % 3 = 0 THEN "rise" ELSE "drop",
                                    IF k % 2 = 0 THEN "liquid"
                                    ELSE IF (k + p) % 3 = 1 THEN "last" ELSE "spike") :
                          k \in 1..n}
    /\ hq0 = historical_quotes
    /\ last_date = get_latest_session_date(historical_quotes)
    /\ pc = "done" /\ main_pc = "update"
    /\ alerts = <<>>
    /\ bot = BotOff

\* lengths of the frame get_stock_data hands to /rapport, around the windows
InvestorSizes == {249, 250, 755, 756, 757}

\* bot.py has read the closes of a symbol, in date order (get_stock_data)
InitBot ==
    /\ InitReturned
    /\ listing = <<>> /\ instruments = {}
    /\ historical_quotes = {} /\ hq0 = {}
    /\ last_date = NoDate
    /\ pc = "off" /\ main_pc = "exited"
    /\ alerts = <<>>
    /\ \E n \in InvestorSizes, rising \in BOOLEAN :
          bot = [pc |-> "idle",
                 df |-> [k \in 1..n |-> [close |-> IF rising THEN 1000 + k ELSE 1050]],
                 m |-> None]

\* bot.py:133  /rapport: the metrics of the frame are computed and sent
Rapport ==
    /\ bot.pc = "idle"
    /\ bot' = [bot EXCEPT !.pc = "replied", !.m = calculate_investor_metrics(bot.df)]
    /\ UNCHANGED <<runVars, dbVars, pgVars, envVars, list_error, main_pc, alerts,
                   sent_lines, sent_messages>>

NextAnalysis ==
    \/ MainAnalyzes
    \/ MainSends
    \/ Rapport

InitReport == InitAnalysis \/ InitManyAlerts \/ InitBot

SpecAnalysis == InitReport /\ [][NextAnalysis]_vars

(* ------------------------------ properties ----------------------------- *)
\* the latest day among the rows of a quote table, by calendar order
LatestDay(table) ==
    LET days == {strptime(r.Date) : r \in table}
    IN CHOOSE d \in days : \A e \in days : e <= d

\* a collected result whose rows save_history can insert
Writable(i) ==
    /\ futures[i].result.kind = "tuple"
    /\ ~RaisesOperationalError(futures[i].result.df.columns \ {"Symbol"})

\* C1: the quote store never holds two rows for one (instrument, date), in
\* historical_quotes as in market_data, whatever the runs and their interleaving.
C1_Uniqueness ==
    /\ \A a, b \in historical_quotes :
          a.instrument_id = b.instrument_id /\ a.Date = b.Date => a = b
    /\ \A a, b \in market_data :
          a.symbol = b.symbol /\ a.date = b.date => a = b

\* a frame carried two different rows for one date and both inserts have run
C1_Witness ==
    /\ pc = "writing"
    /\ cur.k = 3
    /\ ~RaisesOperationalError(cur.columns)
    /\ cur.rows[1].Date = cur.rows[2].Date
    /\ cur.rows[1] # cur.rows[2]
    /\ Cardinality({r \in historical_quotes : r.instrument_id = cur.instrument_id}) = 1

\* C2: a stored quote is never changed nor removed by a later write: writing
\* a row whose (instrument, date) is already stored is a no-op.
C2_NoOverwrite ==
    [][\A r \in historical_quotes : r \in historical_quotes']_vars

\* no quote the collaborator holds is newer than what the store held when the
\* run started (for an empty store: none falls in the bootstrap window)
NoNewUpstreamData ==
    \A s \in AllSymbols : \A r \in feed[s] :
        IF hq0 = {} THEN ~(today - 30 <= r.Date /\ r.Date <= today)
        ELSE ~(LatestDay(hq0) < r.Date /\ r.Date <= today)

\* C3: a run that follows a returned run and finds no newer upstream data
\* returns 0 and leaves the store as it was, whether the latest stored date is
\* today or not.
C3_Idempotent ==
    (pc = "done" /\ runs >= 2 /\ prev.returned /\ NoNewUpstreamData)
        => (ret = 0 /\ historical_quotes = hq0)

\* the second run had a window to fetch (latest stored date before today),
\* dispatched its tasks and ended
C3_Witness ==
    /\ pc = "done" /\ runs = 2 /\ prev.returned /\ NoNewUpstreamData
    /\ hq0 # {}
    /\ DOMAIN futures # {}
    /\ LatestDay(hq0) < today

SymbolOf(i) == (CHOOSE r \in instruments : r.id = i).symbol

\* C4: an instrument that got zero rows in a run is retried by the next run:
\* every upstream quote of it that the earlier window covered and the store
\* still lacks lies in the next run's window.
C4_RetriedNextRun ==
    (runs >= 2 /\ prev.ran /\ pc \in {"dispatch", "collecting", "writing", "done"})
        => \A i \in prev.zero : \A r \in feed[SymbolOf(i)] :
              (/\ prev.start <= r.Date /\ r.Date <= prev.end
               /\ ~\E q \in hq0 : q.instrument_id = i /\ q.Date = strftime(r.Date))
              => (/\ start_s # NoDate
                  /\ strptime(start_s) <= r.Date /\ r.Date <= strptime(end_s))

\* C5: the window starts the day after the latest stored date, or 30 days
\* before today on an empty store, ends today, and every task gets it.
C5_Window ==
    pc \in {"dispatch", "collecting", "writing"}
        => /\ strptime(start_s) = (IF hq0 = {} THEN clock - 30 ELSE LatestDay(hq0) + 1)
           /\ strptime(end_s) = clock
           /\ start_s = strftime(strptime(start_s)) /\ end_s = strftime(strptime(end_s))
           /\ \A i \in DOMAIN futures : futures[i].args = <<start_s, end_s>>

\* tasks were dispatched with a window computed from a store that holds quotes
C5_Witness ==
    /\ pc = "collecting"
    /\ hq0 # {}
    /\ Cardinality(DOMAIN futures) >= 2
    /\ Cardinality({r.Date : r \in hq0}) >= 1
    /\ start_s = <<2024, 1, 1>>

RECURSIVE RowsOfWritable(_)
RowsOfWritable(ids) ==
    IF ids = {} THEN 0
    ELSE LET i == CHOOSE j \in ids : TRUE
         IN (IF Writable(i) THEN Len(futures[i].result.df.rows) ELSE 0)
            + RowsOfWritable(ids \ {i})

\* C6: a failed fetch task or an SQL error on one instrument's rows never
\* fails the run: a run fails only before dispatch, and a returned run has
\* consumed every task, written every row of every successful result, left the
\* failed instruments' quotes as they were and counted none of their rows.
C6_FailureContained ==
    /\ pc = "failed" => DOMAIN futures = {}
    /\ (pc = "done" /\ DOMAIN futures # {}) =>
          /\ \A i \in DOMAIN futures :
                /\ seen[i] = 1
                /\ IF Writable(i)
                   THEN \A k \in 1..Len(futures[i].result.df.rows) :
                           \E q \in historical_quotes :
                               /\ q.instrument_id = i
                               /\ q.Date = futures[i].result.df.rows[k].Date
                   ELSE {q \in historical_quotes : q.instrument_id = i}
                           = {q \in hq0 : q.instrument_id = i}
          /\ ret = RowsOfWritable(DOMAIN futures)

\* a run returned after one instrument with upstream quotes in the window
\* yielded nothing and another one was written
C6_Witness ==
    /\ pc = "done"
    /\ ret > 0
    /\ \E i, j \in DOMAIN futures :
          /\ ~Writable(i)
          /\ \E r \in feed[futures[i].symbol] :
                strptime(start_s) <= r.Date /\ r.Date <= strptime(end_s)
          /\ Writable(j)

\* C7: one logical writer: save_history runs on the main thread only, one call
\* at a time, and the store changes only inside such a call.
C7_SingleWriter ==
    /\ [](/\ writers \subseteq {"MainThread"}
          /\ Cardinality(writers) <= 1
          /\ (writers # {} <=> pc = "writing"))
    /\ [][historical_quotes' # historical_quotes
             => (writers = {"MainThread"} /\ pc = "writing")]_vars

\* a save_history call is in progress while fetch tasks are still running
C7_Witness ==
    /\ pc = "writing"
    /\ cur.k = 2
    /\ historical_quotes # hq0
    /\ Running # {}

\* the store and the total that writing the results in instrument order gives
RECURSIVE WrittenInOrder(_, _, _)
WrittenInOrder(table, total, ids) ==
    IF ids = {} THEN [table |-> table, total |-> total]
    ELSE LET i == CHOOSE j \in ids : \A m \in ids : j <= m
             res == futures[i].result
             s == IF res.kind = "tuple"
                  THEN save_history(table, res.instrument_id, res.df)
                  ELSE [table |-> table, inserted |-> 0]
         IN WrittenInOrder(s.table, total + s.inserted, ids \ {i})

\* C8: for given fetch results the final store and the returned total are
\* those of writing the results in instrument order, whatever order the tasks
\* completed and were written in.
C8_OrderIndependent ==
    (pc = "done" /\ DOMAIN futures # {}) =>
        LET e == WrittenInOrder(hq0, 0, DOMAIN futures)
        IN historical_quotes = e.table /\ ret = e.total

\* the second instrument's frame is written while the first one's, also
\* writable, has not been collected yet
C8_Witness ==
    /\ pc = "collecting"
    /\ 1 \in pending /\ 2 \in DOMAIN futures /\ 2 \notin pending
    /\ futures[1].state = "finished"
    /\ Writable(1) /\ Writable(2)
    /\ total_rows > 0

\* C9: at most 5 fetch calls are in flight, one task is scheduled per
\* instrument, and every task's result is consumed exactly once.
C9_BoundedPool ==
    /\ Cardinality(InFlight) <= 5
    /\ (start_s # NoDate /\ pc \in {"collecting", "writing", "done", "aborted"}) =>
          /\ DOMAIN futures = {r.id : r \in instruments}
          /\ Len(run_instruments) = Cardinality(instruments)
    /\ \A i \in DOMAIN futures :
          /\ seen[i] <= 1
          /\ seen[i] = 1 <=> i \notin pending
          /\ seen[i] = 1 => futures[i].state = "finished"
          /\ (pc = "done") => seen[i] = 1

\* five fetches are in flight and a sixth task waits in the executor's queue
C9_Witness ==
    /\ Cardinality(InFlight) = 5
    /\ \E i \in DOMAIN futures : futures[i].state = "queued"

\* C10: the value a run returns is the number of rows it added to the store.
C10_ReturnsRowsAdded ==
    pc = "done" => ret = Cardinality(historical_quotes) - Cardinality(hq0)

\* C11: when the instrument list cannot be obtained the run is fatal: no fetch
\* is dispatched, no quote is written, the run does not return normally and
\* main produces no analysis report (stated for a registry that holds
\* instruments, so that there is something to dispatch).
C11_FatalOnListFailure ==
    (list_error /\ instruments # {}) =>
        /\ DOMAIN futures = {}
        /\ historical_quotes = hq0
        /\ pc # "done"
        /\ main_pc \notin {"analyzed", "exited"}

\* C12: when the window start (the day after the latest stored date) is later
\* than today, the run dispatches no fetch task, leaves the quote store as it
\* was and returns 0; tasks are only ever dispatched for a window that starts
\* no later than it ends.
C12_AlreadyCurrent ==
    /\ (pc = "done" /\ last_date # NoDate /\ strptime(last_date) + 1 > today) =>
          /\ ret = 0
          /\ DOMAIN futures = {} /\ run_instruments = <<>>
          /\ historical_quotes = hq0
    /\ (pc \in {"dispatch", "collecting", "writing"}) =>
          strptime(start_s) <= strptime(end_s)

\* a run found the latest stored date to be today, with instruments registered
\* and a quote upstream that the store lacks
C12_Witness ==
    /\ pc = "done" /\ runs = 2
    /\ last_date # NoDate /\ strptime(last_date) + 1 > today
    /\ Cardinality(instruments) >= 2
    /\ \E i \in instruments : \E r \in feed[i.symbol] :
          ~\E q \in historical_quotes : q.instrument_id = i.id /\ q.Date = strftime(r.Date)

\* C13: get_history(symbol, limit) returns, in ascending date order, the most
\* recent `limit` quotes of the symbol: the last `limit` elements of its full
\* chronological series, ending with its latest stored quote (checked for the
\* limit analyze_opportunities passes, once the analysis has run).
C13_MostRecentLimit ==
    main_pc = "analyzed" =>
        \A i \in instruments :
            LET full == get_history(historical_quotes, instruments, i.symbol,
                                    Cardinality(historical_quotes) + 1)
                got == get_history(historical_quotes, instruments, i.symbol, HistoryLimit)
            IN /\ \A k \in 1..(Len(got) - 1) : TextLess(got[k].date, got[k + 1].date)
               /\ Len(got) = (IF Len(full) > HistoryLimit THEN HistoryLimit ELSE Len(full))
               /\ got = SubSeq(full, Len(full) - Len(got) + 1, Len(full))

\* the full chronological series of a symbol
FullSeries(symbol) ==
    get_history(historical_quotes, instruments, symbol, Cardinality(historical_quotes) + 1)

\* avg_volume_20 * last_close >= MIN_VOLUME_MAD on a series in hundredths:
\* (sum of the last 20 volumes / 20) * last close, compared without the product
TurnoverAtLeastMinimum(series) ==
    LET n == Len(series)
        need == MIN_VOLUME_MAD * 20 * 10000
    IN /\ n >= 20
       /\ series[n].close > 0
       /\ SumBetween(series, "volume", n - 19, n)
             >= (need + series[n].close - 1) \div series[n].close

\* C14: an instrument whose average 20-session turnover (avg_volume_20 *
\* last_close) is below MIN_VOLUME_MAD never appears in the list
\* analyze_opportunities returns.
C14_LiquidityGate ==
    main_pc = "analyzed" =>
        \A k \in 1..Len(alerts) : TurnoverAtLeastMinimum(FullSeries(alerts[k].symbol))

\* the symbols of a listing that the sync accepts, and the name the last row
\* of the listing gives to one of them
AcceptedSymbols == {Strip(listing[k].Symbole) : k \in {j \in 1..Len(listing) :
                        Len(listing[j].Symbole) = 3}} \ {""}
LatestName(sym) ==
    LET ks == {k \in 1..Len(listing) : Len(listing[k].Symbole) = 3
                                        /\ Strip(listing[k].Symbole) = sym}
    IN Strip(listing[CHOOSE k \in ks : \A j \in ks : j <= k].Nom)

\* C15: the registry upsert inserts if absent, updates the name only, and is
\* idempotent, for any candidate list, one that names a symbol twice included:
\* the sync raises no error, afterwards every accepted symbol has exactly one
\* row with the latest name, no row is removed or renumbered, and a sync of a
\* list already registered changes nothing.
C15_UpsertIdempotent ==
    /\ [](pc # "failed")
    /\ []((pc \notin {"idle", "off", "failed"} /\ ~list_error) =>
             \A sym \in AcceptedSymbols :
                 /\ Cardinality({r \in instruments : r.symbol = sym}) = 1
                 /\ \A r \in instruments : r.symbol = sym => r.name = LatestName(sym))
    /\ [][/\ \A r \in instruments :
                \E q \in instruments' : q.id = r.id /\ q.symbol = r.symbol
          /\ (/\ runs' = runs + 1
              /\ \A sym \in AcceptedSymbols :
                    \E r \in instruments : r.symbol = sym /\ r.name = LatestName(sym))
                => instruments' = instruments]_vars

\* C16: a candidate symbol enters the instrument registry only if it has 3
\* characters and is not in the blacklist: no registry row ever holds a
\* blacklisted or wrong-length symbol.
C16_FilteredRegistry ==
    \A r \in instruments : Len(r.symbol) = 3 /\ r.symbol \notin BLACKLIST

\* len() of a message, counted from its parts
RECURSIVE EntriesLen(_, _)
EntriesLen(entries, k) ==
    IF k > Len(entries) THEN 0 ELSE entries[k].len + 20 + EntriesLen(entries, k + 1)
MessageLen(msg) == (IF msg.head THEN 31 + 1 ELSE 0) + EntriesLen(msg.entries, 1)

\* the entries of messages j.. in order
RECURSIVE EntriesFrom(_, _)
EntriesFrom(msgs, j) ==
    IF j > Len(msgs) THEN <<>> ELSE msgs[j].entries \o EntriesFrom(msgs, j + 1)

\* C17: the messages send_telegram produces are each at most 3500 characters
\* long, are made of whole entries, and read in order give the header followed
\* by every entry once, in the original order.
C17_Chunking ==
    (main_pc = "exited" /\ sent_messages # <<>>) =>
        /\ \A j \in 1..Len(sent_messages) :
              /\ MessageLen(sent_messages[j]) <= 3500
              /\ sent_messages[j].len = MessageLen(sent_messages[j])
              /\ sent_messages[j].head <=> j = 1
              /\ j > 1 => sent_messages[j].entries # <<>>
        /\ EntriesFrom(sent_messages, 1) = sent_lines
        /\ sent_lines = <<SummaryLine(ret, Len(alerts))>> \o alerts

\* a report that did not fit in one message was sent in two
C17_Witness ==
    /\ main_pc = "exited"
    /\ Len(sent_messages) = 2
    /\ Len(alerts) >= 30
    /\ MessageLen(sent_messages[1]) + EntryLen(sent_messages[2].entries[1]) > 3500

\* an indicator value that is reported as absent
Absent(x) == x.kind \in {"None", "nan"}

\* C18: an indicator that needs W sessions is absent (not zero) when fewer
\* than W quotes are available: SMA(N) is absent with fewer than N closes and
\* is the mean of the N closes with exactly N, no signal comes from a
\* comparison with an absent indicator, an instrument with fewer quotes than
\* the analysis needs gives no alert, and the 3-year CAGR is absent when the
\* series is shorter than 756 sessions.
C18_AbsentBeforeWindow ==
    /\ main_pc = "analyzed" =>
          \A i \in instruments :
              LET df == get_history(historical_quotes, instruments, i.symbol, HistoryLimit)
                  ind == calculate_indicators(df)
                  mine == {k \in 1..Len(alerts) : alerts[k].symbol = i.symbol}
              IN /\ Len(df) < 20 => (Absent(ind.sma20) /\ Absent(ind.rsi) /\ mine = {})
                 /\ Len(df) < 50 => Absent(ind.sma50)
                 /\ Len(df) = 20 => ind.sma20 = Num(SumBetween(df, "close", 1, 20), 20)
                 /\ Len(df) = 50 => ind.sma50 = Num(SumBetween(df, "close", 1, 50), 50)
                 /\ \A k \in mine :
                       IF alerts[k].reason = "Golden Cross"
                       THEN ~Absent(ind.sma20) /\ ~Absent(ind.sma50)
                       ELSE ~Absent(ind.rsi)
    /\ bot.pc = "replied" =>
          /\ Len(bot.df) < 250 => bot.m = None
          /\ bot.m # None =>
                /\ bot.m.sma200 = Num(SumBetween(bot.df, "close",
                                                 Len(bot.df) - 199, Len(bot.df)), 200)
                /\ Len(bot.df) < 756 => Absent(bot.m.cagr_3y)

\* the changes of phase update_daily_data can make
PhaseSteps ==
    {<<"idle", "window">>, <<"idle", "failed">>,
     <<"done", "window">>, <<"done", "failed">>,
     <<"failed", "window">>, <<"failed", "failed">>,
     <<"window", "dispatch">>, <<"window", "done">>,
     <<"dispatch", "collecting">>,
     <<"collecting", "writing">>, <<"writing", "collecting">>,
     <<"collecting", "done">>}

\* C19: a run that is left to run goes through ComputeWindow, Dispatch,
\* Collecting and Writing in that order and ends in Done or Failed: quotes are
\* written only after the window was computed and the tasks dispatched, and
\* the run is Done only when every dispatched task has finished, every result
\* was collected and no write is in progress.
C19_PhasesAndTermination ==
    /\ [][pc' # pc => <<pc, pc'>> \in PhaseSteps]_vars
    /\ [][historical_quotes' # historical_quotes =>
             /\ pc = "writing" /\ start_s # NoDate
             /\ cur.instrument_id \in DOMAIN futures
             /\ futures[cur.instrument_id].args = <<start_s, end_s>>]_vars
    /\ [](pc = "done" =>
             /\ cur = NoCall /\ writers = {} /\ pending = {}
             /\ \A i \in DOMAIN futures :
                   futures[i].state = "finished" /\ seen[i] = 1)
    /\ (pc \in {"window", "dispatch", "collecting", "writing"})
           ~> (pc \in {"done", "failed"})

\* a run that wrote a frame while a task was still running has returned
C19_Witness ==
    /\ pc = "done"
    /\ historical_quotes # hq0
    /\ Cardinality(DOMAIN futures) >= 2
    /\ total_rows > 0

====
